---- MODULE Spec2Model ----
(***************************************************************************)
(* A model of the bwn_parser catalogue crawler: the retrying fetch client  *)
(* (src/misc/crawler.py) and the parser built on it (src/main.py).         *)
(*                                                                         *)
(* Python values are modelled as follows.                                  *)
(*   - None / a returned value: the empty sequence <<>> / the one-element  *)
(*     sequence <<v>> (an option).                                         *)
(*   - the elements of the category configuration, whose run-time type     *)
(*     decides what _prepare_categories does, are tagged records (PyStr,   *)
(*     PyInt, PyList), so that a list never equals a string, as in Python. *)
(*   - a text that is searched or lower-cased is a sequence of one-letter  *)
(*     strings.                                                            *)
(***************************************************************************)
EXTENDS Integers, Sequences, FiniteSets, Bags, TLC

VARIABLES
    \* ---- one call of Crawler.get_url, seen from outside
    f_script,   \* what each successive GET attempt of the call will meet
    f_pc,       \* "call" before the call, "returned" after it
    f_ret,      \* what the call returned
    \* ---- the category configuration and one category check
    c_config,   \* configs.CATEGORY_NAMES
    c_pc,       \* "config", "prepared", "error" (AttributeError), "checked"
    c_target,   \* self.target_categories
    c_product,  \* the product_data the check is made for
    c_offer_id, \* the offer id the check is made for
    c_verdict,  \* what _is_target_category returned
    \* ---- one call of _prepare_product_list_urls
    p_pc,       \* "count" before the call, "built" after it
    p_limit,    \* the class attribute product_list_limit
    p_count,    \* self.number_products when the call is made
    p_left,     \* self.number_products when the call has returned
    p_urls,     \* the list of urls returned
    \* ---- one process: p = Parser(configs.CITY_NAME); p.run()
    scenario,   \* which remote service and configuration the run meets
    CATEGORY_NAMES,     \* configs.CATEGORY_NAMES
    pc,         \* where the main thread is
    error,      \* the exception that ended the run, "none" without one
    session,    \* crawler.session: the cookie header and the posted location
    issued,     \* the kinds of request issued so far
    cities,     \* _get_city_id's local `cities`, until the next call of __init__
    city_id,    \* self.city_id
    store_ids,  \* _get_store_ids' local `store_ids`, self.store_ids on success
    number_products,    \* self.number_products
    target_categories,  \* self.target_categories
    products,   \* ParserMixin.products
    result,     \* ParserMixin.result
    emitted,    \* for each row of result: the product task and response it came from
    fetched,    \* the (product task, offer id) pairs whose detail fetch returned a document
    queue,      \* the pool's work queue
    workers,    \* the pool's threads and what each is doing
    exported,   \* the rows written to the csv file
    inflight,   \* how many calls of get_url the pool threads are inside of
    calls,      \* the bag of (product task, offer id) detail requests issued
    pages_ok,   \* the page urls whose fetch returned a document
    runs,       \* how many Parser objects this process has constructed
    carried,    \* the containers as the latest Parser() found them
    \* ---- one Proxy object: Proxy() and one call of get()
    x_file,     \* the text of proxies.txt
    x_pc,       \* "file" before Proxy(), "built" after it, "got" after get()
    x_proxies,  \* self._proxies
    x_got       \* what get() returned

fetchVars == <<f_script, f_pc, f_ret>>
catVars == <<c_config, c_pc, c_target, c_product, c_offer_id, c_verdict>>
pageVars == <<p_pc, p_limit, p_count, p_left, p_urls>>
proxyVars == <<x_file, x_pc, x_proxies, x_got>>
initVars == <<runs, carried, scenario, CATEGORY_NAMES, session, cities, city_id, store_ids, target_categories>>
ghostVars == <<inflight, calls, pages_ok>>
poolVars == <<products, result, emitted, fetched, queue, workers, exported, ghostVars>>
runVars == <<pc, error, issued, number_products, initVars, poolVars>>
vars == <<fetchVars, catVars, pageVars, proxyVars, runVars>>

----------------------------------------------------------------------------
(* Generic helpers. *)

Range(s) == {s[i] : i \in DOMAIN s}

SeqsUpTo(S, n) == UNION {[1..k -> S] : k \in 0..n}

Absent == <<>>

Some(v) == <<v>>

----------------------------------------------------------------------------
(* Crawler.get_url: src/misc/crawler.py *)

\* A bound of the model: how many attempt outcomes a script holds. It is
\* larger than max_retry, so that an attempt beyond the budget would be seen.
MaxAttempts == 4

max_retry == 3

\* The documents a well-formed 200 response may carry in the fetch scenario.
SampleDocs == {"doc_a", "doc_b"}

\* The outcomes of one GET attempt: a Timeout or ProxyError, a status other
\* than 200, a 200 whose body is not JSON, a 200 with a well-formed body, and
\* any other exception of session.get (which get_url does not catch).
Retryable == {"timeout", "status", "badjson"}

Outcome(kind, json) == [kind |-> kind, json |-> json]

FailureOutcomes == {Outcome(k, "") : k \in Retryable \cup {"error"}}

OutcomesOf(docs) == FailureOutcomes \cup {Outcome("ok", d) : d \in docs}

\* The result of a call: the value returned (Absent for None), whether an
\* exception left the call instead, and the number of GETs it issued.
Returned(value, gets) == [value |-> value, raised |-> FALSE, gets |-> gets]

Raised(gets) == [value |-> Absent, raised |-> TRUE, gets |-> gets]

OneMore(r) == [r EXCEPT !.gets = @ + 1]

\* A variant of get_url that gives up only when retry > max_retry.
RECURSIVE get_url_late_stop(_, _)
get_url_late_stop(outs, retry) ==
    IF retry > max_retry \/ retry + 1 > Len(outs)
    THEN Returned(Absent, 0)
    ELSE LET o == outs[retry + 1] IN
         CASE o.kind \in Retryable -> OneMore(get_url_late_stop(outs, retry + 1))
           [] o.kind = "error"     -> Raised(1)
           [] OTHER                -> Returned(Some(o.json), 1)

\* A variant of get_url that retries after a timeout only.
RECURSIVE get_url_first_only(_, _)
get_url_first_only(outs, retry) ==
    IF retry >= max_retry \/ retry + 1 > Len(outs)
    THEN Returned(Absent, 0)
    ELSE LET o == outs[retry + 1] IN
         CASE o.kind \in {"timeout"} -> OneMore(get_url_first_only(outs, retry + 1))
           [] o.kind = "error"       -> Raised(1)
           [] o.kind = "ok"          -> Returned(Some(o.json), 1)
           [] OTHER                  -> Returned(Absent, 1)

\* get_url(url, retry): outs[retry + 1] is what the attempt made with counter
\* `retry` meets. The recursion of the source is kept.
RECURSIVE get_url(_, _)
get_url(outs, retry) ==
    IF retry >= max_retry
    THEN Returned(Absent, 0)
    ELSE LET o == outs[retry + 1] IN
         CASE o.kind \in Retryable -> OneMore(get_url(outs, retry + 1))
           [] o.kind = "error"     -> Raised(1)
           [] OTHER                -> Returned(Some(o.json), 1)

----------------------------------------------------------------------------
(* The fetch scenario: one call of get_url with the default counter, for   *)
(* every script of attempt outcomes.                                       *)

FetchIdle == f_script = <<>> /\ f_pc = "idle" /\ f_ret = Returned(Absent, 0)

FetchStart ==
    /\ f_script \in [1..MaxAttempts -> OutcomesOf(SampleDocs)]
    /\ f_pc = "call"
    /\ f_ret = Returned(Absent, 0)

CallGetUrl ==
    /\ f_pc = "call"
    /\ f_ret' = get_url(f_script, 0)
    /\ f_pc' = "returned"
    /\ UNCHANGED f_script

----------------------------------------------------------------------------
(* The category configuration: src/main.py *)

PyNone == [t |-> "none"]

PyStr(s) == [t |-> "str", s |-> s]

PyInt(n) == [t |-> "int", n |-> n]

PyList(q) == [t |-> "list", items |-> q]

\* The result of a call that may raise AttributeError.
Value(v) == [raised |-> FALSE, value |-> v]

AttributeError == [raised |-> TRUE, value |-> <<>>]

\* for category in config_categories: if not isinstance(category, str): raise
RECURSIVE FirstNonString(_, _)
FirstNonString(items, i) ==
    IF i > Len(items) THEN 0
    ELSE IF items[i].t # "str" THEN i
    ELSE FirstNonString(items, i + 1)

\* A Python list is the sequence of its elements; [config_categories] is the
\* one-element sequence holding the configured value itself.
_prepare_categories(config_categories) ==
    IF config_categories.t = "list"
    THEN IF Len(config_categories.items) = 1 /\ config_categories.items[1].t = "str"
         THEN Value(<<config_categories>>)
         ELSE IF FirstNonString(config_categories.items, 1) # 0
         THEN AttributeError
         ELSE Value(config_categories.items)
    ELSE IF config_categories.t = "str"
    THEN Value(<<config_categories>>)
    ELSE Value(<<>>)

\* product_data.get('offers', [])
OffersOf(product_data) ==
    IF "offers" \in DOMAIN product_data THEN product_data.offers ELSE <<>>

\* The loop of _get_offer_categories: the chain of the first offer summary
\* with the id, {} when there is none. A chain (a dict from depth to name) is
\* the sequence of its values.
RECURSIVE OfferCategoriesFrom(_, _, _)
OfferCategoriesFrom(offer_id, product_offers, i) ==
    IF i > Len(product_offers) THEN <<>>
    ELSE IF product_offers[i].id = offer_id THEN product_offers[i].categories_chain
    ELSE OfferCategoriesFrom(offer_id, product_offers, i + 1)

_get_offer_categories(offer_id, product_data) ==
    OfferCategoriesFrom(offer_id, OffersOf(product_data), 1)

\* for category in self.target_categories:
\*     if category not in offer_categories.values(): return False
RECURSIVE AllCategoriesIn(_, _, _)
AllCategoriesIn(targets, offer_categories, i) ==
    IF i > Len(targets) THEN TRUE
    ELSE IF targets[i] \notin Range(offer_categories) THEN FALSE
    ELSE AllCategoriesIn(targets, offer_categories, i + 1)

\* A variant of _is_target_category that asks for one category of the path.
_is_target_category_any(targets, offer_id, product_data) ==
    IF targets # <<>>
    THEN \E i \in DOMAIN targets :
            targets[i] \in Range(_get_offer_categories(offer_id, product_data))
    ELSE TRUE

_is_target_category(targets, offer_id, product_data) ==
    IF targets # <<>>
    THEN AllCategoriesIn(targets,
                         _get_offer_categories(offer_id, product_data), 1)
    ELSE TRUE

----------------------------------------------------------------------------
(* The category scenario: _prepare_categories on every configuration, then *)
(* _is_target_category with the prepared path on every offer list.         *)

\* Bounds of the model.
MaxPath == 2

MaxOffers == 2

CategoryNames == {"Dogs", "Bowls"}

OfferIds == {"o1", "o2"}

\* The elements a configured list may hold: strings, and one non-string.
ConfigElements == {PyStr(n) : n \in CategoryNames} \cup {PyInt(7)}

Configs ==
    {PyNone} \cup {PyStr(n) : n \in CategoryNames}
             \cup {PyList(q) : q \in SeqsUpTo(ConfigElements, MaxPath)}

Chains ==
    { <<>>, <<PyStr("Dogs")>>, <<PyStr("Bowls"), PyStr("Dogs")>>,
      <<PyStr("Dogs"), PyStr("Toys")>> }

OfferSummaries == [id : OfferIds, categories_chain : Chains]

ProbeProducts ==
    {[id |-> "p1", name |-> "n1"]}
        \cup {[id |-> "p1", name |-> "n1", offers |-> q] :
                    q \in SeqsUpTo(OfferSummaries, MaxOffers)}

CatIdle ==
    /\ c_config = PyNone /\ c_pc = "idle" /\ c_target = <<>>
    /\ c_product = [id |-> "p1", name |-> "n1"] /\ c_offer_id = "o1"
    /\ c_verdict = FALSE

CatStart ==
    /\ c_config \in Configs
    /\ c_pc = "config"
    /\ c_target = <<>>
    /\ c_product \in ProbeProducts
    /\ c_offer_id \in OfferIds
    /\ c_verdict = FALSE

PrepareCategories ==
    /\ c_pc = "config"
    /\ LET r == _prepare_categories(c_config) IN
         /\ c_pc' = IF r.raised THEN "error" ELSE "prepared"
         /\ c_target' = r.value
    /\ UNCHANGED <<c_config, c_product, c_offer_id, c_verdict>>

CheckCategory ==
    /\ c_pc = "prepared"
    /\ c_verdict' = _is_target_category(c_target, c_offer_id, c_product)
    /\ c_pc' = "checked"
    /\ UNCHANGED <<c_config, c_target, c_product, c_offer_id>>

----------------------------------------------------------------------------
(* The catalogue pages: src/main.py *)

product_list_limit == 100

\* .../catalog/list?limit=<limit>&offset=<offset>&sort_type=popular&id[]
PageUrl(limit, offset) == [path |-> "catalog/list", limit |-> limit, offset |-> offset]

\* A variant of the loop that goes on while self.number_products >= 0.
RECURSIVE PageUrlLoopInclusive(_, _, _, _)
PageUrlLoopInclusive(remaining, limit, offset, urls) ==
    IF remaining >= 0
    THEN PageUrlLoopInclusive(remaining - limit, limit, offset + 100,
                              Append(urls, PageUrl(limit, offset)))
    ELSE [urls |-> urls, number_products |-> remaining]

\* while self.remaining > 0: the loop of _prepare_product_list_urls,
\* which counts self.remaining down by the limit and the offset up by
\* the literal 100.
RECURSIVE PageUrlLoop(_, _, _, _)
PageUrlLoop(remaining, limit, offset, urls) ==
    IF remaining > 0
    THEN PageUrlLoop(remaining - limit, limit, offset + 100,
                     Append(urls, PageUrl(limit, offset)))
    ELSE [urls |-> urls, number_products |-> remaining]

\* The urls returned, and self.remaining as the call leaves it.
_prepare_product_list_urls(remaining, limit) ==
    PageUrlLoop(remaining, limit, 0, <<>>)

----------------------------------------------------------------------------
(* The pagination scenario: _prepare_product_list_urls on every product    *)
(* count, with the default page size and with other ones.                  *)

\* A bound of the model: the largest product count.
MaxCount == 260

PageSizes == {product_list_limit, 30, 50, 150}

PageIdle ==
    /\ p_pc = "idle" /\ p_limit = product_list_limit /\ p_count = 0
    /\ p_left = 0 /\ p_urls = <<>>

PageStart ==
    /\ p_pc = "count"
    /\ p_limit \in PageSizes
    /\ p_count \in 0..MaxCount
    /\ p_left = p_count
    /\ p_urls = <<>>

PrepareProductListUrls ==
    /\ p_pc = "count"
    /\ LET r == _prepare_product_list_urls(p_left, p_limit) IN
         /\ p_urls' = r.urls
         /\ p_left' = r.number_products
    /\ p_pc' = "built"
    /\ UNCHANGED <<p_limit, p_count>>

----------------------------------------------------------------------------
(* Texts: src/main.py compares city names exactly and store addresses      *)
(* lower-cased, by containment.                                            *)

Lower(ch) ==
    CASE ch = "E" -> "e" [] ch = "L" -> "l" [] ch = "N" -> "n"
      [] ch = "O" -> "o" [] ch = "T" -> "t"
      [] OTHER -> ch

\* str.lower()
LowerText(text) == [i \in DOMAIN text |-> Lower(text[i])]

\* needle in hay, for two str
Contains(needle, hay) ==
    \E i \in 0..(Len(hay) - Len(needle)) : SubSeq(hay, i + 1, i + Len(needle)) = needle

\* configs.CITY_NAME and configs.STORE_ADDRESS
CITY_NAME == <<"O", "m", "s", "k">>

STORE_ADDRESS == <<"L", "e", "n">>

----------------------------------------------------------------------------
(* The remote service and the configuration a run meets. Two scenarios     *)
(* share every action: "resolve" meets every small answer to the requests  *)
(* of the initialization and a one-product catalogue; "crawl" meets one    *)
(* answer to each of them and a catalogue of two pages.                    *)

\* Bounds of the model: the longest list of city candidates and of store ids.
MaxCities == 3

MaxStores == 2

Workers == {"w1", "w2"}

\* configs.THREADS
THREADS == Cardinality(Workers)

Omsk == CITY_NAME

OmskLowerCase == <<"o", "m", "s", "k">>

Tomsk == <<"T", "o", "m", "s", "k">>

CityCandidates == [name : {Omsk, OmskLowerCase, Tomsk}, id : {"77", "78"}]

CityWorld ==
    IF scenario = "resolve"
    THEN SeqsUpTo(CityCandidates, MaxCities)
    ELSE {<<[name |-> Tomsk, id |-> "78"], [name |-> Omsk, id |-> "77"]>>}

StoreWorld ==
    IF scenario = "resolve" THEN SeqsUpTo({0, 5}, MaxStores) ELSE {<<0, 5>>}

\* the scenarios whose catalogue is one page of one product
SmallCatalogue == scenario \in {"resolve", "again"}

CountWorld == IF SmallCatalogue THEN {0, 1} ELSE {0, 90, 150}

ConfigWorld(sc) ==
    IF sc = "resolve" THEN Configs
    ELSE IF sc = "again" THEN {PyNone, PyStr("Dogs")}
    ELSE {PyNone, PyStr("Dogs"), PyList(<<PyStr("Dogs")>>),
          PyList(<<PyStr("Dogs"), PyStr("Bowls")>>)}

Summary(id, chain) == [id |-> id, categories_chain |-> chain]

DogsBowls == <<PyStr("Dogs"), PyStr("Bowls")>>

\* The products of the catalogue: two offers; one offer listed twice and one
\* more; no 'offers' key.
Product1 ==
    [id |-> "p1", name |-> "n1",
     offers |-> <<Summary("o1", DogsBowls), Summary("o2", <<PyStr("Dogs")>>)>>]

Product2 ==
    [id |-> "p2", name |-> "n2",
     offers |-> <<Summary("o3", DogsBowls), Summary("o4", DogsBowls), Summary("o3", DogsBowls)>>]

Product3 == [id |-> "p3", name |-> "n3"]

\* The products the service lists on the page at an offset. The second page
\* lists a product of the first again.
CatalogPage(url) ==
    IF SmallCatalogue
    THEN IF url.offset = 0 THEN <<Product2>> ELSE <<>>
    ELSE CASE url.offset = 0   -> <<Product1, Product2>>
           [] url.offset = 100 -> <<Product3, Product2>>
           [] OTHER            -> <<>>

Store(address) == [address |-> address]

InLeninStreet == Store(<<"u", "l", " ", "L", "E", "N", " ", "5">>)

InMirStreet == Store(<<"M", "i", "r", " ", "1">>)

\* The details the service gives for an offer id.
OfferDetail(id) ==
    [id |-> id,
     size |-> <<"size of", id>>,
     retail_price |-> <<"retail of", id>>,
     discount_price |-> <<"discount of", id>>,
     availability_info |->
        [offer_store_amount |->
            CASE id = "o1" -> <<InMirStreet, InLeninStreet>>
              [] id = "o2" -> <<InLeninStreet>>
              [] id = "o3" -> <<InLeninStreet, InMirStreet>>
              [] OTHER     -> <<InMirStreet>>]]
----------------------------------------------------------------------------
(* Initialization: ParserMixin.__init__ and the Crawler calls it makes.    *)

\* Every result get_url can give for a url whose well-formed response is
\* `doc`: one per script of attempt outcomes, the foreign exception aside.
FetchResults(doc) ==
    {get_url(outs, 0).value :
        outs \in [1..max_retry -> {Outcome(k, "") : k \in Retryable} \cup {Outcome("ok", doc)}]}

\* A variant of the scan that compares the names lower-cased.
RECURSIVE CityLoopAnyCase(_, _, _)
CityLoopAnyCase(candidates, city_name, i) ==
    IF i > Len(candidates) THEN AttributeError
    ELSE IF LowerText(candidates[i].name) = LowerText(city_name)
    THEN Value(candidates[i].id)
    ELSE CityLoopAnyCase(candidates, city_name, i + 1)

\* for city_data in cities: if city_data['name'] == city_name: return city_data['id']
\* raise AttributeError
RECURSIVE CityLoop(_, _, _)
CityLoop(candidates, city_name, i) ==
    IF i > Len(candidates) THEN AttributeError
    ELSE IF candidates[i].name = city_name THEN Value(candidates[i].id)
    ELSE CityLoop(candidates, city_name, i + 1)

\* A variant of the check that rejects every list holding a 0.
NoStoresAnyZero(ids) == ids = <<>> \/ (\E i \in DOMAIN ids : ids[i] = 0)

\* if not store_ids or (len(store_ids) == 1 and store_ids[0] == 0): raise
NoStores(ids) == ids = <<>> \/ (Len(ids) = 1 /\ ids[1] = 0)

Fail(kind) == pc' = "failed" /\ error' = kind

\* A variant of _get_city_id that returns None when no listed city matches.
GetCityIdOrNone ==
    /\ pc = "city"
    /\ issued' = issued \cup {"city"}
    /\ \E listed \in CityWorld : \E response \in FetchResults([cities |-> listed]) :
          IF response = Absent
          THEN /\ Fail("TypeError")
               /\ UNCHANGED <<cities, city_id>>
          ELSE LET found == CityLoop(response[1].cities, CITY_NAME, 1) IN
               /\ cities' = Some(response[1].cities)
               /\ city_id' = IF found.raised THEN Absent ELSE Some(found.value)
               /\ pc' = "location" /\ UNCHANGED error
    /\ UNCHANGED <<runs, carried, scenario, CATEGORY_NAMES, session, store_ids, target_categories,
                   number_products, poolVars>>

\* self.city_id = self._get_city_id(city_name): search_city's get_url, its
\* response['cities'] (a TypeError on None), then the scan of the candidates.
GetCityId ==
    /\ pc = "city"
    /\ issued' = issued \cup {"city"}
    /\ \E listed \in CityWorld : \E response \in FetchResults([cities |-> listed]) :
          IF response = Absent
          THEN /\ Fail("TypeError")
               /\ UNCHANGED <<cities, city_id>>
          ELSE LET found == CityLoop(response[1].cities, CITY_NAME, 1) IN
               /\ cities' = Some(response[1].cities)
               /\ IF found.raised
                  THEN Fail("AttributeError: city not found") /\ UNCHANGED city_id
                  ELSE city_id' = Some(found.value) /\ pc' = "location" /\ UNCHANGED error
    /\ UNCHANGED <<runs, carried, scenario, CATEGORY_NAMES, session, store_ids, target_categories,
                   number_products, poolVars>>

\* self.crawler.set_city_id(self.city_id): one POST, its response unused; an
\* exception of session.post is not caught.
SetCityId ==
    /\ pc = "location"
    /\ issued' = issued \cup {"location"}
    /\ cities' = Absent
    /\ \E sent \in BOOLEAN :
          IF sent
          THEN /\ session' = [session EXCEPT !.location = city_id]
               /\ pc' = "stores" /\ UNCHANGED error
          ELSE Fail("RequestException") /\ UNCHANGED session
    /\ UNCHANGED <<runs, carried, scenario, CATEGORY_NAMES, city_id, store_ids, target_categories,
                   number_products, poolVars>>

\* self.store_ids = self._get_store_ids(): the cookie header, search_store_ids'
\* get_url, its response['stores'], then the check of the list.
GetStoreIds ==
    /\ pc = "stores"
    /\ issued' = issued \cup {"stores"}
    /\ session' = [session EXCEPT !.cookie = city_id]
    /\ \E listed \in StoreWorld : \E response \in FetchResults([stores |-> listed]) :
          IF response = Absent
          THEN Fail("TypeError") /\ UNCHANGED store_ids
          ELSE /\ store_ids' = Some(response[1].stores)
               /\ IF NoStores(response[1].stores)
                  THEN Fail("AttributeError: stores not found")
                  ELSE pc' = "count" /\ UNCHANGED error
    /\ UNCHANGED <<runs, carried, scenario, CATEGORY_NAMES, cities, city_id, target_categories,
                   number_products, poolVars>>

\* self.number_products = self.crawler.get_number_products()
GetNumberProducts ==
    /\ pc = "count"
    /\ issued' = issued \cup {"count"}
    /\ \E n \in CountWorld : \E response \in FetchResults([metadata |-> [count |-> n]]) :
          IF response = Absent
          THEN Fail("TypeError") /\ UNCHANGED number_products
          ELSE /\ number_products' = response[1].metadata.count
               /\ pc' = "categories" /\ UNCHANGED error
    /\ UNCHANGED <<initVars, poolVars>>

\* self.target_categories = self._prepare_categories(configs.CATEGORY_NAMES)
SetTargetCategories ==
    /\ pc = "categories"
    /\ LET prepared == _prepare_categories(CATEGORY_NAMES) IN
          IF prepared.raised
          THEN Fail("AttributeError: category format") /\ UNCHANGED target_categories
          ELSE target_categories' = prepared.value /\ pc' = "run" /\ UNCHANGED error
    /\ UNCHANGED <<runs, carried, scenario, CATEGORY_NAMES, session, cities, city_id, store_ids,
                   issued, number_products, poolVars>>
----------------------------------------------------------------------------
(* The run: Parser.run, the two pools and the export.                      *)

Idle == [stage |-> "idle", url |-> PageUrl(0, 0), pidx |-> 0, todo |-> <<>>, responses |-> <<>>]

AllIdle == \A w \in Workers : workers[w].stage = "idle"

\* .../catalog/offers/<id>/details
OfferUrl(id) == [path |-> "catalog/offers", id |-> id]

\* The set of urls of _prepare_offer_list_urls.
_prepare_offer_list_urls(offers_data) == {OfferUrl(offers_data[i].id) : i \in DOMAIN offers_data}

\* The orders in which a set may be iterated.
Orders(S) == {q \in [1..Cardinality(S) -> S] : Range(q) = S}

\* A variant that keeps the urls in a list, one per listed offer.
OfferUrlsListed(offers_data) == {[i \in DOMAIN offers_data |-> OfferUrl(offers_data[i].id)]}

\* What `map(self.crawler.get_url, offer_urls)` may walk through: the urls of
\* the set, each once, in some order.
OfferUrlsIterated(offers_data) == Orders(_prepare_offer_list_urls(offers_data))

\* A variant of the pool that hands a task to a thread that is still busy.
CanStartBusy(w) == TRUE

\* ThreadPoolExecutor(max_workers=configs.THREADS): a task starts on a thread
\* that runs no other task.
CanStart(w) == workers[w].stage = "idle"

\* ParserMixin.products and ParserMixin.result
Containers(ps, rs) == [products |-> ps, result |-> rs]

NoContainers == Containers(<<>>, <<>>)

\* for store_data in offer_stores:
\*     if configs.STORE_ADDRESS.lower() in store_data['address'].lower(): return True
RECURSIVE StoreLoop(_, _)
StoreLoop(offer_stores, i) ==
    IF i > Len(offer_stores) THEN FALSE
    ELSE IF Contains(LowerText(STORE_ADDRESS), LowerText(offer_stores[i].address)) THEN TRUE
    ELSE StoreLoop(offer_stores, i + 1)

\* A variant of _is_target_store that accepts every offer.
_is_target_store_everywhere(offer_data) == TRUE

_is_target_store(offer_data) ==
    StoreLoop(offer_data.availability_info.offer_store_amount, 1)

\* The row _get_offer_details appends.
Row(product_data, offer_data) ==
    [city |-> CITY_NAME, city_id |-> city_id[1], store_address |-> STORE_ADDRESS,
     product_id |-> product_data.id, product_name |-> product_data.name,
     product_size |-> offer_data.size,
     retail_price |-> offer_data.retail_price,
     discount_price |-> offer_data.discount_price]

\* run() up to the submission of the page tasks: the return on a count of
\* zero, else _prepare_product_list_urls and pool.map's submission of one
\* task per url.
RunParseProducts ==
    /\ pc = "run"
    /\ IF number_products = 0
       THEN pc' = "done" /\ UNCHANGED <<number_products, queue>>
       ELSE LET built == _prepare_product_list_urls(number_products, product_list_limit) IN
            /\ number_products' = built.number_products
            /\ queue' = [i \in DOMAIN built.urls |-> [Idle EXCEPT !.stage = "page", !.url = built.urls[i]]]
            /\ pc' = "pages"
    /\ UNCHANGED <<error, issued, initVars, products, result, emitted, fetched, workers, exported, ghostVars>>

\* A thread of the page pool takes the next task and enters get_url.
StartPage(w) ==
    /\ pc = "pages" /\ CanStart(w) /\ queue # <<>>
    /\ workers' = [workers EXCEPT ![w] = Head(queue)]
    /\ queue' = Tail(queue)
    /\ issued' = issued \cup {"page"}
    /\ inflight' = inflight + 1
    /\ UNCHANGED <<pc, error, number_products, initVars, products, result, emitted, fetched, exported,
                   calls, pages_ok>>

\* A variant of _get_product_list that assigns the page's list to the container.
FinishPageAssign(w) ==
    /\ workers[w].stage = "page"
    /\ \E response \in FetchResults([products |-> CatalogPage(workers[w].url)]) :
          /\ products' = IF response = Absent THEN products ELSE response[1].products
          /\ pages_ok' = IF response = Absent THEN pages_ok ELSE pages_ok \cup {workers[w].url}
    /\ workers' = [workers EXCEPT ![w] = Idle]
    /\ inflight' = inflight - 1
    /\ UNCHANGED <<pc, error, issued, number_products, initVars, result, emitted, fetched, queue, exported,
                   calls>>

\* _get_product_list: if response := get_url(url): self.products.extend(...)
FinishPage(w) ==
    /\ workers[w].stage = "page"
    /\ \E response \in FetchResults([products |-> CatalogPage(workers[w].url)]) :
          /\ products' = IF response = Absent THEN products ELSE products \o response[1].products
          /\ pages_ok' = IF response = Absent THEN pages_ok ELSE pages_ok \cup {workers[w].url}
    /\ workers' = [workers EXCEPT ![w] = Idle]
    /\ inflight' = inflight - 1
    /\ UNCHANGED <<pc, error, issued, number_products, initVars, result, emitted, fetched, queue, exported,
                   calls>>

\* A variant of _parse_products that does not wait for the tasks it started.
RunParseOffersNoWait ==
    /\ pc = "pages" /\ queue = <<>>
    /\ queue' = [i \in DOMAIN products |-> [Idle EXCEPT !.stage = "fetch", !.pidx = i]]
    /\ pc' = "offers"
    /\ UNCHANGED <<error, issued, number_products, initVars, products, result, emitted, fetched, workers, exported, ghostVars>>

\* The page pool's block ends when its tasks have; _parse_offers then
\* submits one task per element of self.products.
RunParseOffers ==
    /\ pc = "pages" /\ queue = <<>> /\ AllIdle
    /\ queue' = [i \in DOMAIN products |-> [Idle EXCEPT !.stage = "fetch", !.pidx = i]]
    /\ pc' = "offers"
    /\ UNCHANGED <<error, issued, number_products, initVars, products, result, emitted, fetched, workers, exported, ghostVars>>

\* A thread of the offer pool takes the next product: the set of offer urls,
\* in the order the set is iterated. With no url the task is over at once.
StartOffers(w) ==
    /\ pc = "offers" /\ CanStart(w) /\ queue # <<>>
    /\ LET task == Head(queue)
       IN  \E order \in OfferUrlsIterated(OffersOf(products[task.pidx])) :
              IF order = <<>>
              THEN /\ workers' = [workers EXCEPT ![w] = Idle]
                   /\ UNCHANGED <<issued, inflight, calls>>
              ELSE /\ workers' = [workers EXCEPT ![w] = [task EXCEPT !.todo = order]]
                   /\ issued' = issued \cup {"offer"}
                   /\ inflight' = inflight + 1
                   /\ calls' = calls (+) SetToBag({<<task.pidx, order[1].id>>})
    /\ queue' = Tail(queue)
    /\ UNCHANGED <<pc, error, number_products, initVars, products, result, emitted, fetched, exported,
                   pages_ok>>

\* offer_responses = list(map(self.crawler.get_url, offer_urls)): the next
\* get_url returns; after the last one the loop over the responses begins.
OfferFetched(w) ==
    /\ workers[w].stage = "fetch"
    /\ LET me == workers[w]
           url == Head(me.todo)
       IN  \E response \in FetchResults(OfferDetail(url.id)) :
              /\ workers' = [workers EXCEPT ![w] =
                    [me EXCEPT !.todo = Tail(me.todo),
                               !.responses = Append(me.responses, response),
                               !.stage = IF Tail(me.todo) = <<>> THEN "match" ELSE "fetch"]]
              /\ fetched' = IF response = Absent THEN fetched
                            ELSE fetched \cup {<<me.pidx, url.id>>}
              /\ IF Tail(me.todo) = <<>>
                 THEN inflight' = inflight - 1 /\ UNCHANGED calls
                 ELSE calls' = calls (+) SetToBag({<<me.pidx, me.todo[2].id>>})
                      /\ UNCHANGED inflight
    /\ UNCHANGED <<pc, error, issued, number_products, initVars, products, result, emitted, queue, exported,
                   pages_ok>>

\* A variant in which the TypeError of a task is raised in the main thread.
MatchOfferRaising(w) ==
    /\ workers[w].stage = "match"
    /\ LET me == workers[w]
           response == Head(me.responses)
           product_data == products[me.pidx]
       IN  IF response = Absent
           THEN /\ workers' = [workers EXCEPT ![w] = Idle]
                /\ Fail("TypeError")
                /\ UNCHANGED <<result, emitted>>
           ELSE LET offer_data == response[1]
                    keep == /\ _is_target_store(offer_data)
                            /\ _is_target_category(target_categories, offer_data.id, product_data)
                IN  /\ result' = IF keep THEN Append(result, Row(product_data, offer_data)) ELSE result
                    /\ emitted' = IF keep
                                  THEN Append(emitted, [pidx |-> me.pidx, response |-> response])
                                  ELSE emitted
                    /\ workers' = [workers EXCEPT ![w] =
                          IF Tail(me.responses) = <<>> THEN Idle
                          ELSE [me EXCEPT !.responses = Tail(me.responses)]]
                    /\ UNCHANGED <<pc, error>>
    /\ UNCHANGED <<issued, number_products, initVars, products, fetched, queue, exported,
                   ghostVars>>

\* One turn of `for offer_data in offer_responses`: on None the subscript in
\* _is_target_store raises TypeError, which ends the task (the pool keeps the
\* exception in a future nobody reads); else the two checks and the append.
MatchOffer(w) ==
    /\ workers[w].stage = "match"
    /\ LET me == workers[w]
           response == Head(me.responses)
           product_data == products[me.pidx]
       IN  IF response = Absent
           THEN /\ workers' = [workers EXCEPT ![w] = Idle]
                /\ UNCHANGED <<result, emitted>>
           ELSE LET offer_data == response[1]
                    keep == /\ _is_target_store(offer_data)
                            /\ _is_target_category(target_categories, offer_data.id, product_data)
                IN  /\ result' = IF keep THEN Append(result, Row(product_data, offer_data)) ELSE result
                    /\ emitted' = IF keep
                                  THEN Append(emitted, [pidx |-> me.pidx, response |-> response])
                                  ELSE emitted
                    /\ workers' = [workers EXCEPT ![w] =
                          IF Tail(me.responses) = <<>> THEN Idle
                          ELSE [me EXCEPT !.responses = Tail(me.responses)]]
    /\ UNCHANGED <<pc, error, issued, number_products, initVars, products, fetched, queue, exported,
                   ghostVars>>

\* The offer pool's block ends when its tasks have; _save_result follows.
RunSaveResult ==
    /\ pc = "offers" /\ queue = <<>> /\ AllIdle
    /\ pc' = "save"
    /\ UNCHANGED <<error, issued, number_products, initVars, poolVars>>

\* A variant of _save_result without the check of the result.
SaveResultUnchecked ==
    /\ pc = "save"
    /\ exported' = Some(result) /\ pc' = "done" /\ UNCHANGED error
    /\ UNCHANGED <<issued, number_products, initVars, products, result, emitted, fetched, queue, workers,
                   ghostVars>>

\* _save_result: NothingToSaveError on an empty result, else the csv file.
SaveResult ==
    /\ pc = "save"
    /\ IF result = <<>>
       THEN Fail("NothingToSaveError") /\ UNCHANGED exported
       ELSE exported' = Some(result) /\ pc' = "done" /\ UNCHANGED error
    /\ UNCHANGED <<issued, number_products, initVars, products, result, emitted, fetched, queue, workers,
                   ghostVars>>

MaxRuns == 2

\* A variant in which every Parser object has containers of its own.
NewParserOwnContainers ==
    /\ (pc = "done" \/ error = "NothingToSaveError") /\ runs < MaxRuns
    /\ runs' = runs + 1
    /\ carried' = Containers(products, result)
    /\ products' = <<>> /\ result' = <<>> /\ emitted' = <<>>
    /\ pc' = "city" /\ error' = "none"
    /\ session' = [cookie |-> Absent, location |-> Absent] /\ issued' = {}
    /\ cities' = Absent /\ city_id' = Absent /\ store_ids' = Absent
    /\ number_products' = 0 /\ target_categories' = <<>>
    /\ exported' = Absent /\ pages_ok' = {}
    /\ UNCHANGED <<scenario, CATEGORY_NAMES, fetched, queue, workers, inflight, calls>>

\* Another Parser(configs.CITY_NAME) once run() of the previous one is over: a
\* new crawler and session and new instance attributes, while `products` and
\* `result` are attributes of the class, mutated in place and never rebound.
NewParser ==
    /\ (pc = "done" \/ error = "NothingToSaveError") /\ runs < MaxRuns
    /\ runs' = runs + 1
    /\ carried' = Containers(products, result)
    /\ pc' = "city" /\ error' = "none"
    /\ session' = [cookie |-> Absent, location |-> Absent] /\ issued' = {}
    /\ cities' = Absent /\ city_id' = Absent /\ store_ids' = Absent
    /\ number_products' = 0 /\ target_categories' = <<>>
    /\ exported' = Absent /\ pages_ok' = {}
    /\ UNCHANGED <<scenario, CATEGORY_NAMES, products, result, emitted, fetched, queue, workers,
                   inflight, calls>>

RunIdle ==
    /\ scenario = "none" /\ CATEGORY_NAMES = PyNone /\ pc = "idle" /\ error = "none"
    /\ session = [cookie |-> Absent, location |-> Absent] /\ issued = {}
    /\ cities = Absent /\ city_id = Absent /\ store_ids = Absent
    /\ number_products = 0 /\ target_categories = <<>>
    /\ products = <<>> /\ result = <<>> /\ emitted = <<>> /\ fetched = {}
    /\ queue = <<>> /\ workers = [w \in Workers |-> Idle] /\ exported = Absent
    /\ inflight = 0 /\ calls = EmptyBag /\ pages_ok = {}
    /\ runs = 0 /\ carried = NoContainers

\* The state when Parser(configs.CITY_NAME) is about to resolve the city.
RunStart(sc) ==
    /\ scenario = sc /\ CATEGORY_NAMES \in ConfigWorld(sc) /\ pc = "city" /\ error = "none"
    /\ session = [cookie |-> Absent, location |-> Absent] /\ issued = {}
    /\ cities = Absent /\ city_id = Absent /\ store_ids = Absent
    /\ number_products = 0 /\ target_categories = <<>>
    /\ products = <<>> /\ result = <<>> /\ emitted = <<>> /\ fetched = {}
    /\ queue = <<>> /\ workers = [w \in Workers |-> Idle] /\ exported = Absent
    /\ inflight = 0 /\ calls = EmptyBag /\ pages_ok = {}
    /\ runs = 1 /\ carried = NoContainers

----------------------------------------------------------------------------
(* Specifications. *)

(***************************************************************************)
(* Proxy (src/misc/crawler.py): the proxy list read from proxies.txt.      *)
(***************************************************************************)
MaxFile == 5

NewLine == "\n"

\* the characters a proxies.txt is made of here: one letter and the line break
FileChars == {"h", NewLine}

ProxyFiles == SeqsUpTo(FileChars, MaxFile)

\* str.split(sep) for a one-character separator
RECURSIVE split(_, _)
split(text, sep) ==
    IF \A i \in DOMAIN text : text[i] # sep
    THEN <<text>>
    ELSE LET k == CHOOSE i \in DOMAIN text :
                      text[i] = sep /\ \A j \in 1..(i - 1) : text[j] # sep
         IN  <<SubSeq(text, 1, k - 1)>> \o split(SubSeq(text, k + 1, Len(text)), sep)

\* self._proxies = [{"http": _proxy, "https": _proxy} for _proxy in file_proxies]
_prepare_proxy_list(text) ==
    LET file_proxies == split(text, NewLine)
    IN  [i \in DOMAIN file_proxies |->
            [http |-> file_proxies[i], https |-> file_proxies[i]]]

ProxyIdle ==
    x_file = <<>> /\ x_pc = "idle" /\ x_proxies = <<>> /\ x_got = Absent

ProxyStart ==
    x_file \in ProxyFiles /\ x_pc = "file" /\ x_proxies = <<>> /\ x_got = Absent

\* Proxy(): __init__ calls _prepare_proxy_list and nothing else
NewProxy ==
    /\ x_pc = "file"
    /\ x_proxies' = _prepare_proxy_list(x_file)
    /\ x_pc' = "built"
    /\ UNCHANGED <<x_file, x_got>>

\* get(): random.choice(self._proxies), an IndexError on an empty list
ProxyGet ==
    /\ x_pc = "built"
    /\ IF x_proxies = <<>>
       THEN x_pc' = "error" /\ x_got' = Absent
       ELSE \E i \in DOMAIN x_proxies : x_got' = Some(x_proxies[i]) /\ x_pc' = "got"
    /\ UNCHANGED <<x_file, x_proxies>>

FetchInit == FetchStart /\ CatIdle /\ PageIdle /\ ProxyIdle /\ RunIdle

FetchNext == CallGetUrl /\ UNCHANGED <<catVars, pageVars, proxyVars, runVars>>

SpecFetch == FetchInit /\ [][FetchNext]_vars

CatInit == CatStart /\ FetchIdle /\ PageIdle /\ ProxyIdle /\ RunIdle

CatNext ==
    \/ PrepareCategories /\ UNCHANGED <<fetchVars, pageVars, proxyVars, runVars>>
    \/ CheckCategory /\ UNCHANGED <<fetchVars, pageVars, proxyVars, runVars>>

SpecCategories == CatInit /\ [][CatNext]_vars

PageInit == PageStart /\ FetchIdle /\ CatIdle /\ ProxyIdle /\ RunIdle

PageNext == PrepareProductListUrls /\ UNCHANGED <<fetchVars, catVars, proxyVars, runVars>>

SpecPages == PageInit /\ [][PageNext]_vars

ProxyInit == ProxyStart /\ FetchIdle /\ CatIdle /\ PageIdle /\ RunIdle

ProxyNext ==
    \/ NewProxy /\ UNCHANGED <<fetchVars, catVars, pageVars, runVars>>
    \/ ProxyGet /\ UNCHANGED <<fetchVars, catVars, pageVars, runVars>>

SpecProxy == ProxyInit /\ [][ProxyNext]_vars

OnlyRun == UNCHANGED <<fetchVars, catVars, pageVars, proxyVars>>

RunNext ==
    \/ GetCityId /\ OnlyRun
    \/ SetCityId /\ OnlyRun
    \/ GetStoreIds /\ OnlyRun
    \/ GetNumberProducts /\ OnlyRun
    \/ SetTargetCategories /\ OnlyRun
    \/ RunParseProducts /\ OnlyRun
    \/ (\E w \in Workers : StartPage(w)) /\ OnlyRun
    \/ (\E w \in Workers : FinishPage(w)) /\ OnlyRun
    \/ RunParseOffers /\ OnlyRun
    \/ (\E w \in Workers : StartOffers(w)) /\ OnlyRun
    \/ (\E w \in Workers : OfferFetched(w)) /\ OnlyRun
    \/ (\E w \in Workers : MatchOffer(w)) /\ OnlyRun
    \/ RunSaveResult /\ OnlyRun
    \/ SaveResult /\ OnlyRun

\* One run against the two-page catalogue.
Init == RunStart("crawl") /\ FetchIdle /\ CatIdle /\ PageIdle /\ ProxyIdle

Next == RunNext

Spec == Init /\ [][Next]_vars

\* One run against every small answer to the requests of the initialization.
ResolveInit == RunStart("resolve") /\ FetchIdle /\ CatIdle /\ PageIdle /\ ProxyIdle

SpecResolve == ResolveInit /\ [][RunNext]_vars

\* One process that constructs and runs Parser objects one after the other.
TwoRunsInit == RunStart("again") /\ FetchIdle /\ CatIdle /\ PageIdle /\ ProxyIdle

TwoRunsNext ==
    \/ RunNext
    \/ NewParser /\ OnlyRun

SpecTwoRuns == TwoRunsInit /\ [][TwoRunsNext]_vars

\* The run with its scheduling: the main thread and the pool's threads are
\* threads of the operating system, and every call they wait in returns
\* (requests.get has a timeout, get_url a bounded number of attempts), so a
\* run that can take a step does take one. The configurations are the absent
\* path and a path of two names.
LiveInit == Init /\ CATEGORY_NAMES \in {PyNone, PyList(<<PyStr("Dogs"), PyStr("Bowls")>>)}

SpecLive == LiveInit /\ [][Next]_vars /\ WF_vars(Next)

----------------------------------------------------------------------------
(* Claims about get_url, checked under SpecFetch. *)

EveryAttemptRetryable == \A i \in DOMAIN f_script : f_script[i].kind \in Retryable

NoForeignException == \A i \in DOMAIN f_script : f_script[i].kind # "error"

\* The attempts of the budget that meet a 200 with a well-formed body.
OkWithinBudget == {i \in 1..max_retry : f_script[i].kind = "ok"}

FirstOkWithinBudget == CHOOSE i \in OkWithinBudget : \A j \in OkWithinBudget : i <= j

\* C1 as stated: when every attempt fails with a retryable outcome, get_url
\* called with the default counter issues exactly 4 GETs and returns None.
C1_FourAttempts ==
    (f_pc = "returned" /\ EveryAttemptRetryable)
        => (f_ret.gets = 4 /\ f_ret.value = Absent /\ ~f_ret.raised)

\* C1 amended: when every attempt fails with a retryable outcome, get_url
\* called with the default counter issues exactly 3 GETs (max_retry is the
\* number of requests per url, the first included) and returns None.
C1_ThreeAttempts ==
    (f_pc = "returned" /\ EveryAttemptRetryable)
        => (f_ret.gets = 3 /\ f_ret.value = Absent /\ ~f_ret.raised)

C1_Witness ==
    /\ f_pc = "returned"
    /\ EveryAttemptRetryable
    /\ {f_script[i].kind : i \in 1..3} = Retryable
    /\ f_ret.gets = 3
    /\ f_ret.value = Absent

\* C2: over scripts of timeouts, non-200 statuses, malformed bodies and
\* well-formed 200 responses, get_url raises nothing; it returns the document
\* of the first attempt of its budget that got a well-formed 200, and it
\* returns None exactly when every attempt of the budget failed.
C2_FirstSuccessOrAbsent ==
    (f_pc = "returned" /\ NoForeignException)
        => /\ ~f_ret.raised
           /\ OkWithinBudget # {}
                => f_ret.value = Some(f_script[FirstOkWithinBudget].json)
           /\ (f_ret.value = Absent) <=> (OkWithinBudget = {})

C2_Witness ==
    /\ f_pc = "returned"
    /\ NoForeignException
    /\ f_script[1].kind = "badjson"
    /\ f_script[2] = Outcome("ok", "doc_b")
    /\ f_script[3] = Outcome("ok", "doc_a")
    /\ f_ret.value = Some("doc_b")
    /\ f_ret.gets = 2

----------------------------------------------------------------------------
(* Claims about the category functions, checked under SpecCategories. *)

ConfigIsStringList ==
    c_config.t = "list" /\ \A i \in DOMAIN c_config.items : c_config.items[i].t = "str"

\* C5 as stated: a single string s gives [s]; a list of strings of any
\* length, length one included, is passed through unchanged; a list with a
\* non-string element is a configuration error; None gives the empty path.
C5_Normalized ==
    c_pc \in {"prepared", "error"} =>
        /\ c_config.t = "str" => (c_pc = "prepared" /\ c_target = <<c_config>>)
        /\ ConfigIsStringList => (c_pc = "prepared" /\ c_target = c_config.items)
        /\ (c_config.t = "list" /\ ~ConfigIsStringList) => c_pc = "error"
        /\ c_config.t = "none" => (c_pc = "prepared" /\ c_target = <<>>)

\* The chain of the first summary of the product's offer list that carries
\* the offer id, stated without the loop.
SummariesWithId ==
    {i \in DOMAIN OffersOf(c_product) : OffersOf(c_product)[i].id = c_offer_id}

ChainValues ==
    IF SummariesWithId = {} THEN {}
    ELSE LET first == CHOOSE i \in SummariesWithId : \A j \in SummariesWithId : i <= j
         IN  Range(OffersOf(c_product)[first].categories_chain)

\* C6: _is_target_category is true exactly when the target path is empty or
\* every element of the path is among the values of the categories_chain of
\* the product's offer summary with the offer id (the first one, were the id
\* listed twice); with a non-empty path and no such summary it is false.
C6_CategoryMatch ==
    c_pc = "checked" =>
        /\ c_verdict <=> (c_target = <<>> \/ \A i \in DOMAIN c_target : c_target[i] \in ChainValues)
        /\ (c_target # <<>> /\ SummariesWithId = {}) => ~c_verdict

C6_Witness ==
    /\ c_pc = "checked"
    /\ Len(c_target) = 2
    /\ c_verdict
    /\ SummariesWithId = {2}

----------------------------------------------------------------------------
(* Claims about the page urls, checked under SpecPages. *)

CeilDiv(n, d) == (n + d - 1) \div d

\* C7: with the default page size 100, every product count n >= 0 gives
\* exactly ceil(n / 100) urls, the k-th (from 0) with limit=100 and
\* offset=100*k; 250 gives offsets 0, 100, 200 and 0 gives no url.
C7_DefaultPages ==
    (p_pc = "built" /\ p_limit = 100) =>
        /\ Len(p_urls) = CeilDiv(p_count, 100)
        /\ \A k \in 0..(Len(p_urls) - 1) : p_urls[k + 1] = PageUrl(100, 100 * k)
        /\ p_count = 250 => [i \in DOMAIN p_urls |-> p_urls[i].offset] = <<0, 100, 200>>
        /\ p_count = 0 => p_urls = <<>>

C7_Witness ==
    /\ p_pc = "built" /\ p_limit = 100 /\ p_count = 250
    /\ p_urls = <<PageUrl(100, 0), PageUrl(100, 100), PageUrl(100, 200)>>

\* C8: for every page size L >= 1 and every count n the k-th url has limit=L
\* and offset=k*L, and the pages cover [0, n) with no gap and no overlap.
C8_OffsetStepIsLimit ==
    p_pc = "built" =>
        /\ Len(p_urls) = CeilDiv(p_count, p_limit)
        /\ \A k \in 0..(Len(p_urls) - 1) : p_urls[k + 1] = PageUrl(p_limit, k * p_limit)

----------------------------------------------------------------------------
(* Claims about the offers of a product, checked under Spec. *)

\* The two predicates, stated without the loops of the source.
StoreMatches(detail) ==
    \E i \in DOMAIN detail.availability_info.offer_store_amount :
        Contains(LowerText(STORE_ADDRESS),
                 LowerText(detail.availability_info.offer_store_amount[i].address))

CategoryMatches(id, product_data) ==
    \/ target_categories = <<>>
    \/ /\ \E i \in DOMAIN OffersOf(product_data) : OffersOf(product_data)[i].id = id
       /\ LET first == CHOOSE i \in DOMAIN OffersOf(product_data) :
                           /\ OffersOf(product_data)[i].id = id
                           /\ \A j \in 1..(i - 1) : OffersOf(product_data)[j].id # id
          IN  \A k \in DOMAIN target_categories :
                 target_categories[k] \in Range(OffersOf(product_data)[first].categories_chain)

RowsOf(pidx, id) ==
    {i \in DOMAIN emitted : emitted[i].pidx = pidx /\ emitted[i].response[1].id = id}

\* C3: a None among a product's offer responses is left out of the matching:
\* when the offer tasks are over, every offer whose detail was fetched and
\* that passes the store check and the category check has its row, whatever
\* became of the other offers of the product and in whatever order the offers
\* were gone through.
C3_AbsentOffersOmitted ==
    pc \in {"save", "done"} =>
        \A pair \in fetched :
            (StoreMatches(OfferDetail(pair[2])) /\ CategoryMatches(pair[2], products[pair[1]]))
                => RowsOf(pair[1], pair[2]) # {}

\* C4: every row of the result comes from a (product task, offer) pair whose
\* detail was fetched and for which the store check and the category check
\* are both true; its product_id and product_name are that product's, its
\* size and prices are those of that offer's detail; no pair has two rows.
C4_RowsAreMatchedPairs ==
    /\ Len(emitted) = Len(result)
    /\ \A i \in DOMAIN result :
          /\ emitted[i].response # Absent
          /\ LET product_data == products[emitted[i].pidx]
                 id == emitted[i].response[1].id
             IN  /\ <<emitted[i].pidx, id>> \in fetched
                 /\ StoreMatches(OfferDetail(id))
                 /\ CategoryMatches(id, product_data)
                 /\ result[i].product_id = product_data.id
                 /\ result[i].product_name = product_data.name
                 /\ result[i].product_size = OfferDetail(id).size
                 /\ result[i].retail_price = OfferDetail(id).retail_price
                 /\ result[i].discount_price = OfferDetail(id).discount_price
                 /\ RowsOf(emitted[i].pidx, id) = {i}

C4_Witness ==
    /\ pc = "done"
    /\ Len(result) = 3
    /\ \E pair \in fetched : RowsOf(pair[1], pair[2]) = {}
    /\ \E i, j \in DOMAIN result :
          /\ result[i].product_id = result[j].product_id
          /\ result[i].product_size # result[j].product_size

----------------------------------------------------------------------------
(* Claims about the initialization, checked under SpecResolve. *)

ExactMatches == {i \in DOMAIN cities[1] : cities[1][i].name = CITY_NAME}

\* C9: the city id is the id of the first candidate, in the order of the
\* response, whose name equals the requested name exactly; with no such
\* candidate, an empty list included, the resolution fails with the
\* city-not-found error; and when the city search itself returns None the
\* initialization fails instead of going on with no city.
C9_FirstExactCity ==
    /\ cities # Absent =>
          IF ExactMatches = {}
          THEN pc = "failed" /\ error = "AttributeError: city not found" /\ city_id = Absent
          ELSE /\ pc = "location"
               /\ \E i \in ExactMatches :
                     /\ \A j \in ExactMatches : i <= j
                     /\ city_id = Some(cities[1][i].id)
    /\ (pc # "city" /\ city_id = Absent) => pc = "failed"
    /\ (pc = "failed" /\ issued = {"city"} /\ cities = Absent) => error = "TypeError"

C9_Witness ==
    /\ cities = Some(<<[name |-> OmskLowerCase, id |-> "78"], [name |-> Omsk, id |-> "77"],
                       [name |-> Omsk, id |-> "78"]>>)
    /\ city_id = Some("77")
    /\ pc = "location"

\* C10: the store check fails with the no-stores error exactly when the list
\* returned is empty or is [0], and passes every other list; when it fails
\* no catalogue or offer request has been issued, and none will be, and the
\* result holds no row.
C10_NoStoresAborts ==
    /\ store_ids # Absent =>
          /\ (store_ids[1] = <<>> \/ store_ids[1] = <<0>>)
                <=> (pc = "failed" /\ error = "AttributeError: stores not found")
          /\ (store_ids[1] # <<>> /\ store_ids[1] # <<0>> /\ pc = "failed")
                => "count" \in issued
    /\ error = "AttributeError: stores not found" =>
          /\ pc = "failed"
          /\ issued \cap {"count", "page", "offer"} = {}
          /\ result = <<>> /\ products = <<>> /\ exported = Absent

C10_Witness ==
    /\ store_ids = Some(<<0>>)
    /\ pc = "failed"
    /\ error = "AttributeError: stores not found"
    /\ issued = {"city", "location", "stores"}

ConfigMalformed ==
    CATEGORY_NAMES.t = "list"
        /\ \E i \in DOMAIN CATEGORY_NAMES.items : CATEGORY_NAMES.items[i].t # "str"

\* C11: a category configuration that is a list with a non-string element is
\* raised as an error before any network activity: in a run with such a
\* configuration no request (city search, location POST, store search,
\* catalogue count) is ever issued.
C11_ConfigCheckedFirst == ConfigMalformed => issued = {}

\* a proxies.txt without a single entry: empty, or made of line breaks only
NoEntries(text) == \A i \in DOMAIN text : text[i] = NewLine

\* C12: constructing the Proxy from a proxy list without entries fails at
\* construction: no Proxy object is ever built from it, and get() never
\* returns a blank endpoint.
C12_EmptyProxyListFails ==
    NoEntries(x_file) =>
        /\ x_pc # "built"
        /\ x_pc = "got" => x_got[1].http # <<>>

\* C13: the export step fails with NothingToSaveError exactly when the result
\* container is empty at that step, and then writes no file; with a non-empty
\* container it writes every accumulated row; no other step raises that error
\* or writes the file.
C13_NothingToSaveOnlyAtExport ==
    [][/\ pc = "save" =>
            /\ (result = <<>>) <=> (error' = "NothingToSaveError")
            /\ result = <<>> => exported' = Absent
            /\ result # <<>> => exported' = Some(result) /\ error' = "none"
       /\ pc # "save" => error' # "NothingToSaveError" /\ exported' = exported]_vars

C13_Witness ==
    /\ pc = "failed" /\ error = "NothingToSaveError"
    /\ products # <<>> /\ fetched # {} /\ exported = Absent

\* C14: in both concurrent phases and under every interleaving, the number of
\* requests in flight never exceeds the configured pool size THREADS.
C14_InFlightBounded == inflight \in 0..THREADS

C14_Witness == pc = "offers" /\ inflight = THREADS /\ queue # <<>>

LocatedRequests == {"location", "stores", "count", "page", "offer"}

\* C15: the city id is resolved (non-null) before the first location, store,
\* catalogue or offer request and is not changed afterwards; the session's
\* location state (the cookie header and the posted location) is written only
\* by the initialization, before either pool has started: no pool thread is
\* at work and no page or offer request has been issued when it is written.
C15_CityBeforeRequests ==
    [][/\ (issued' \ issued) \cap LocatedRequests # {} => city_id # Absent
       /\ city_id # Absent => city_id' = city_id
       /\ session' # session =>
            /\ pc \in {"location", "stores"}
            /\ issued \cap {"page", "offer"} = {}
            /\ AllIdle /\ queue = <<>> /\ inflight = 0]_vars

C15_Witness ==
    /\ pc = "offers" /\ ~AllIdle /\ "offer" \in issued
    /\ city_id # Absent /\ session = [cookie |-> city_id, location |-> city_id]

\* the distinct offer ids a product lists
OfferIdsOf(product_data) ==
    {OffersOf(product_data)[i].id : i \in DOMAIN OffersOf(product_data)}

\* the offer ids whose detail was requested for product task pidx
CalledFor(pidx) == {c[2] : c \in {d \in BagToSet(calls) : d[1] = pidx}}

\* C16: for every product, each distinct offer id it lists is requested at
\* most once however often it is listed, and so yields at most one row; only
\* listed ids are requested; when the offer tasks are over every distinct id
\* has been requested exactly once, and a product without offers has caused
\* no request.
C16_OneFetchPerDistinctOffer ==
    /\ \A c \in BagToSet(calls) :
          /\ CopiesIn(c, calls) = 1
          /\ c[1] \in DOMAIN products /\ c[2] \in OfferIdsOf(products[c[1]])
          /\ Cardinality(RowsOf(c[1], c[2])) <= 1
    /\ (pc \in {"save", "done"} \/ error = "NothingToSaveError") =>
          \A pidx \in DOMAIN products : CalledFor(pidx) = OfferIdsOf(products[pidx])

C16_Witness ==
    /\ pc = "done"
    /\ \E i, j \in DOMAIN products :
          /\ products[i] = Product2 /\ CopiesIn(<<i, "o3">>, calls) = 1
          /\ RowsOf(i, "o3") # {}
          /\ products[j] = Product3 /\ CalledFor(j) = {}

ExportReached == exported # Absent \/ error = "NothingToSaveError"

\* the product tasks all of whose detail fetches returned a document
FullyFetched(pidx) ==
    \A id \in OfferIdsOf(products[pidx]) : <<pidx, id>> \in fetched

\* C17: once the initialization has succeeded with a positive product count,
\* run() always terminates at the export step, whichever page and offer
\* fetches return None: no exception ends the run between the first page
\* request and the export, and the export holds the row of every matching
\* offer of every product whose own fetches all succeeded.
C17_RunReachesExport ==
    /\ (pc = "pages") ~> ExportReached
    /\ []((pc = "failed" /\ "page" \in issued) => error = "NothingToSaveError")
    /\ [](exported # Absent =>
            \A pidx \in DOMAIN products : FullyFetched(pidx) =>
                \A id \in OfferIdsOf(products[pidx]) :
                    (StoreMatches(OfferDetail(id)) /\ CategoryMatches(id, products[pidx]))
                        => \E k \in RowsOf(pidx, id) :
                              exported[1][k] = Row(products[pidx], OfferDetail(id)))

C17_Witness ==
    /\ pc = "done" /\ exported # Absent
    /\ Len(products) = 2 /\ number_products < 0
    /\ \E pidx \in DOMAIN products : ~FullyFetched(pidx)

\* the product lists of the pages of `order`, one after the other
RECURSIVE PagesConcatenated(_)
PagesConcatenated(order) ==
    IF order = <<>> THEN <<>>
    ELSE CatalogPage(Head(order)) \o PagesConcatenated(Tail(order))

IsPrefix(s, t) == Len(s) <= Len(t) /\ SubSeq(t, 1, Len(s)) = s

\* C18: under every interleaving of the page tasks the product container is,
\* in some order of the pages, the concatenation of the product lists of the
\* pages whose fetch returned a document, with nothing removed, merged or
\* lost; a page whose fetch returned None adds nothing; the product container
\* and the result container only ever grow.
C18_ProductsAreFetchedPages ==
    /\ [](\E order \in Orders(pages_ok) : products = PagesConcatenated(order))
    /\ [][IsPrefix(products, products') /\ IsPrefix(result, result')]_vars

C18_Witness ==
    /\ pc = "offers" /\ Cardinality(pages_ok) = 2
    /\ products = <<Product3, Product2, Product1, Product2>>

\* C19: the product container and the result container are shared by all
\* Parser objects of a process: a second Parser starts with the products and
\* rows the first one left and keeps them; when its run reaches the export,
\* its offer phase has requested the offers of the earlier products once
\* more, and the file it writes begins with the earlier rows.
C19_ContainersShared ==
    runs >= 2 =>
        /\ IsPrefix(carried.products, products)
        /\ IsPrefix(carried.result, result)
        /\ ExportReached =>
              \A pidx \in DOMAIN carried.products :
                  \A id \in OfferIdsOf(products[pidx]) : CopiesIn(<<pidx, id>>, calls) >= 2
        /\ exported # Absent => IsPrefix(carried.result, exported[1])

C19_Witness ==
    /\ runs = 2 /\ pc = "done" /\ exported # Absent
    /\ carried.products # <<>> /\ carried.result # <<>>
    /\ Len(products) > Len(carried.products)
    /\ Len(exported[1]) > Len(carried.result)

PageTaskAlive ==
    \/ \E w \in Workers : workers[w].stage = "page"
    \/ \E i \in DOMAIN queue : queue[i].stage = "page"

OfferTaskAlive ==
    \/ \E w \in Workers : workers[w].stage \in {"fetch", "match"}
    \/ \E i \in DOMAIN queue : queue[i].stage = "fetch"

\* C20: the two concurrent phases are separated by a barrier: an offer-detail
\* request is issued only when every page task has finished, the product
\* container is not appended to once an offer task exists, and the export
\* step starts only when every offer task has finished.
C20_PhasesSeparated ==
    /\ [][calls' # calls => ~PageTaskAlive]_vars
    /\ [][products' # products => ~OfferTaskAlive /\ calls = EmptyBag]_vars
    /\ [](~(PageTaskAlive /\ OfferTaskAlive))
    /\ []((pc = "save" \/ ExportReached) => ~PageTaskAlive /\ ~OfferTaskAlive)

C20_Witness ==
    /\ pc = "pages" /\ queue = <<>> /\ products # <<>>
    /\ \E w \in Workers : workers[w].stage = "page"

====
